---- MODULE Spec2Model ----
(***************************************************************************)
(* A model of dblp_parser.py (class DBLP): the page-count normalizer, the  *)
(* feature check, the record extractor and the three parse_* entry points  *)
(* with their traversal of the element tree.                               *)
(*                                                                         *)
(* Text is modelled as a sequence of one-character strings, so that the    *)
(* regular expressions, int() and str() of the source are computed and not *)
(* assumed.  Python's None is the one-element sequence None below, which   *)
(* no text can equal because its element is not a single character.        *)
(***************************************************************************)
EXTENDS Integers, Sequences, FiniteSets, TLC

VARIABLES
    pages,      \* __count_pages: the argument `pages`
    pagecount,  \* __count_pages: the returned string, NotYet before the call
    source,     \* the file at dblp_path: [readable, nodes]
    destination,\* the file at save_path: [exists, lines]
    call,       \* the arguments of the running entry point, NoCall when idle
    pc,         \* position in the entry point
    features_to_extract, \* the refined features, in iteration order
    root,       \* the children of the root element still in the tree
    element,    \* index (in source.nodes) of the loop variable, 0 before
    iter_next,  \* index of the node the tree iterator holds as next, 0: none
    visited,    \* indices of the nodes the loop body has run for, in order
    attrib_values, \* the last extracted record, NoRecord before
    dataframe,  \* the DataFrame: [columns, rows], NoFrame when not built
    emitted,    \* history: the records written or appended, each with the
                \* index of its node
    outcome,    \* how the entry point ended: "", "returned" or an exception
    log         \* the completed calls of this session, with what they produced

vars == <<pages, pagecount, source, destination, call, pc, features_to_extract,
          root, element, iter_next, visited, attrib_values, dataframe, emitted,
          outcome, log>>

pagevars == <<pages, pagecount>>
runvars == <<source, destination, call, pc, features_to_extract, root, element,
             iter_next, visited, attrib_values, dataframe, emitted, outcome,
             log>>

----------------------------------------------------------------------------
(* Text helpers *)

None == <<"None">>
NotYet == <<"NotYet">>

Digits == {"0", "1", "2", "3", "4", "5", "6", "7", "8", "9"}

DigitValue(c) ==
    CASE c = "0" -> 0 [] c = "1" -> 1 [] c = "2" -> 2 [] c = "3" -> 3
      [] c = "4" -> 4 [] c = "5" -> 5 [] c = "6" -> 6 [] c = "7" -> 7
      [] c = "8" -> 8 [] c = "9" -> 9

DigitChar(d) ==
    CASE d = 0 -> "0" [] d = 1 -> "1" [] d = 2 -> "2" [] d = 3 -> "3"
      [] d = 4 -> "4" [] d = 5 -> "5" [] d = 6 -> "6" [] d = 7 -> "7"
      [] d = 8 -> "8" [] d = 9 -> "9"

Last(s) == s[Len(s)]
Front(s) == SubSeq(s, 1, Len(s) - 1)

\* re.compile(sep).split(s) for a one-character pattern
RECURSIVE Split(_, _)
Split(s, sep) ==
    IF \A i \in 1..Len(s) : s[i] # sep
    THEN <<s>>
    ELSE LET i == CHOOSE k \in 1..Len(s) :
                      s[k] = sep /\ \A j \in 1..(k - 1) : s[j] # sep
         IN  <<SubSeq(s, 1, i - 1)>> \o Split(SubSeq(s, i + 1, Len(s)), sep)

\* (mutant) the runs in the reverse order, so that [-1] takes the first
RECURSIVE FindAllDigitsReversed(_)
FindAllDigitsReversed(s) ==
    IF s = <<>> THEN <<>>
    ELSE IF Head(s) \notin Digits THEN FindAllDigitsReversed(Tail(s))
    ELSE LET n == CHOOSE k \in 1..Len(s) :
                      /\ \A j \in 1..k : s[j] \in Digits
                      /\ (k = Len(s) \/ s[k + 1] \notin Digits)
         IN  FindAllDigitsReversed(SubSeq(s, n + 1, Len(s))) \o <<SubSeq(s, 1, n)>>

\* re.compile(r"[\d]+").findall(s): the maximal digit runs, left to right
RECURSIVE FindAllDigits(_)
FindAllDigits(s) ==
    IF s = <<>> THEN <<>>
    ELSE IF Head(s) \notin Digits THEN FindAllDigits(Tail(s))
    ELSE LET n == CHOOSE k \in 1..Len(s) :
                      /\ \A j \in 1..k : s[j] \in Digits
                      /\ (k = Len(s) \/ s[k + 1] \notin Digits)
         IN  <<SubSeq(s, 1, n)>> \o FindAllDigits(SubSeq(s, n + 1, Len(s)))

\* int(digits)
RECURSIVE ToInt(_)
ToInt(d) == IF d = <<>> THEN 0 ELSE ToInt(Front(d)) * 10 + DigitValue(Last(d))

\* str(n)
RECURSIVE NatToStr(_)
NatToStr(n) ==
    IF n < 10 THEN <<DigitChar(n)>>
    ELSE NatToStr(n \div 10) \o <<DigitChar(n % 10)>>

IntToStr(n) == IF n < 0 THEN <<"-">> \o NatToStr(0 - n) ELSE NatToStr(n)

----------------------------------------------------------------------------
(* __count_pages *)

\* one pass of the loop body: what `part` adds to cnt
PartCount(part) ==
    LET subparts == Split(part, "-")
    IN  IF Len(subparts) > 2 THEN 0
        ELSE IF \E i \in 1..Len(subparts) : FindAllDigits(subparts[i]) = <<>>
             THEN 0     \* IndexError: continue
        ELSE LET nums == [i \in 1..Len(subparts) |->
                              ToInt(Last(FindAllDigits(subparts[i])))]
             IN  IF Len(subparts) = 1 THEN 1 ELSE nums[2] - nums[1] + 1

RECURSIVE SumParts(_)
SumParts(parts) ==
    IF parts = <<>> THEN 0 ELSE PartCount(Head(parts)) + SumParts(Tail(parts))

count_pages(p) ==
    IF p = None THEN <<>>      \* TypeError
    ELSE LET cnt == SumParts(Split(p, ","))
         IN  IF cnt = 0 THEN <<>> ELSE IntToStr(cnt)

----------------------------------------------------------------------------
(* __init__: the element types and the feature types of DBLP *)

all_elements ==
    {"article", "inproceedings", "proceedings", "book", "incollection",
     "phdthesis", "mastersthesis", "www", "person", "data"}

\* the dict all_features, in insertion order
all_features ==
    << <<"address", "str">>,   <<"author", "list">>,  <<"booktitle", "str">>,
       <<"cdrom", "str">>,     <<"chapter", "str">>,  <<"cite", "list">>,
       <<"crossref", "str">>,  <<"editor", "list">>,  <<"ee", "list">>,
       <<"isbn", "str">>,      <<"journal", "str">>,  <<"month", "str">>,
       <<"note", "str">>,      <<"number", "str">>,   <<"pages", "str">>,
       <<"publisher", "str">>, <<"publnr", "str">>,   <<"school", "str">>,
       <<"series", "str">>,    <<"title", "str">>,    <<"url", "str">>,
       <<"volume", "str">>,    <<"year", "str">> >>

\* iterating all_features yields its keys in insertion order
AllFeatureNames == [i \in 1..Len(all_features) |-> all_features[i][1]]

Range(f) == {f[i] : i \in DOMAIN f}

IsFeature(name) == name \in Range(AllFeatureNames)

\* self.all_features[name]
FeatureKind(name) ==
    all_features[CHOOSE i \in 1..Len(all_features) : all_features[i][1] = name][2]

----------------------------------------------------------------------------
(* Python dicts: a sequence of entries in insertion order.  An entry holds *)
(* a str in s (kind "str") or a list of str in l (kind "list").            *)

StrEntry(k, v) == [key |-> k, kind |-> "str", s |-> v, l |-> <<>>]
ListEntry(k, v) == [key |-> k, kind |-> "list", s |-> <<>>, l |-> v]

Keys(d) == {d[i].key : i \in DOMAIN d}
KeyList(d) == [i \in DOMAIN d |-> d[i].key]

\* d[k]
Get(d, k) == d[CHOOSE i \in DOMAIN d : d[i].key = k]

\* d[k] = entry: a present key keeps its place, a new key goes last
Put(d, entry) ==
    IF entry.key \in Keys(d)
    THEN [i \in DOMAIN d |-> IF d[i].key = entry.key THEN entry ELSE d[i]]
    ELSE Append(d, entry)

----------------------------------------------------------------------------
(* __check_features *)

\* The orders in which a Python set of these names can be iterated: the
\* order of a set of str is fixed by the hash seed of the process.
Orders(S) ==
    {q \in [1..Cardinality(S) -> S] : \A i, j \in DOMAIN q : i # j => q[i] # q[j]}

Unspecified == [given |-> FALSE, names |-> {}]
Requested(S) == [given |-> TRUE, names |-> S]

\* (mutant) no name is discarded
RefinedKeepAll(features) == features.names

\* the names __check_features keeps from a non-empty request

Refined(features) == {f \in features.names : IsFeature(f)}

\* (mutant) without the test of len(features) == 0
CheckFeaturesNoEmptyTest(features) ==
    IF ~features.given
    THEN {AllFeatureNames}
    ELSE Orders(Refined(features))

\* the values __check_features can return, as the sequence its iteration yields

check_features(features) ==
    IF ~features.given
    THEN {AllFeatureNames}
    ELSE IF Cardinality(features.names) = 0
    THEN {AllFeatureNames}
    ELSE Orders(Refined(features))

----------------------------------------------------------------------------
(* __init_features *)

RECURSIVE init_features(_, _)
init_features(features, attributes) ==
    IF features = <<>> THEN attributes
    ELSE LET feature == Head(features)
             next == IF FeatureKind(feature) = "str"
                     THEN Put(attributes, StrEntry(feature, <<>>))
                     ELSE Put(attributes, ListEntry(feature, <<>>))
         IN  init_features(Tail(features), next)

----------------------------------------------------------------------------
(* etree.tostring and the title clean-up of __extract_features *)

\* the escaping of text by the serializer
RECURSIVE Escape(_)
Escape(t) ==
    IF t = None \/ t = <<>> THEN <<>>
    ELSE (CASE Head(t) = "&" -> <<"&", "a", "m", "p", ";">>
            [] Head(t) = "<" -> <<"&", "l", "t", ";">>
            [] Head(t) = ">" -> <<"&", "g", "t", ";">>
            [] OTHER -> <<Head(t)>>) \o Escape(Tail(t))

RECURSIVE SerializeAll(_)
\* etree.tostring(e): the element with its tail; a tag is one symbol
Serialize(e) ==
    (IF (e.text = None \/ e.text = <<>>) /\ e.sub = <<>>
     THEN <<"<", e.tag, "/", ">">>
     ELSE <<"<", e.tag, ">">> \o Escape(e.text) \o SerializeAll(e.sub)
              \o <<"<", "/", e.tag, ">">>)
    \o Escape(e.tail)

SerializeAll(es) ==
    IF es = <<>> THEN <<>> ELSE Serialize(Head(es)) \o SerializeAll(Tail(es))

\* re.sub("<.*?>|\\n", "", s): "." matches no newline
RECURSIVE StripMarkup(_)
StripMarkup(s) ==
    IF s = <<>> THEN <<>>
    ELSE IF Head(s) = "\n" THEN StripMarkup(Tail(s))
    ELSE IF Head(s) = "<"
            /\ \E k \in 2..Len(s) :
                   s[k] = ">" /\ \A j \in 2..(k - 1) : s[j] # "\n"
    THEN LET k == CHOOSE k \in 2..Len(s) :
                      /\ s[k] = ">"
                      /\ \A j \in 2..(k - 1) : s[j] # "\n" /\ s[j] # ">"
         IN  StripMarkup(SubSeq(s, k + 1, Len(s)))
    ELSE <<Head(s)>> \o StripMarkup(Tail(s))

----------------------------------------------------------------------------
(* __extract_features *)

\* (mutant) a missing attribute is read as None and raises nothing
ExtractNeverRaises(elements, include_key_and_mdate) == FALSE

\* elements.attrib['key'] or elements.attrib['mdate'] raises KeyError
ExtractRaises(elements, include_key_and_mdate) ==
    include_key_and_mdate
        /\ (elements.attrib.key = None \/ elements.attrib.mdate = None)

\* the text derived from one child
DerivedText(sub_element) ==
    IF sub_element.tag = "title" THEN StripMarkup(Serialize(sub_element))
    ELSE IF sub_element.tag = "pages" THEN count_pages(sub_element.text)
    ELSE sub_element.text

\* (mutant) without the test of the tag against features_to_extract
StoreChildAnyTag(attributes, sub_element, features) ==
    LET text == DerivedText(sub_element)
    IN  IF text # None /\ Len(text) > 0
        THEN Put(attributes, StrEntry(sub_element.tag, text))
        ELSE attributes

\* (mutant) without the test of len(text) > 0
StoreChildEmptyText(attributes, sub_element, features) ==
    IF sub_element.tag \notin Range(features) THEN attributes
    ELSE LET text == DerivedText(sub_element)
         IN  IF text # None
             THEN IF FeatureKind(sub_element.tag) = "str"
                  THEN Put(attributes, StrEntry(sub_element.tag, text))
                  ELSE Put(attributes,
                           ListEntry(sub_element.tag,
                                     Get(attributes, sub_element.tag).l
                                         \o <<text>>))
             ELSE attributes

\* one pass of the loop over the children
StoreChild(attributes, sub_element, features) ==
    IF sub_element.tag \notin Range(features) THEN attributes
    ELSE LET text == DerivedText(sub_element)
         IN  IF text # None /\ Len(text) > 0
             THEN IF FeatureKind(sub_element.tag) = "str"
                  THEN Put(attributes, StrEntry(sub_element.tag, text))
                  ELSE Put(attributes,
                           ListEntry(sub_element.tag,
                                     Get(attributes, sub_element.tag).l
                                         \o <<text>>))
             ELSE attributes

RECURSIVE StoreChildren(_, _, _)
StoreChildren(attributes, children, features) ==
    IF children = <<>> THEN attributes
    ELSE StoreChildren(StoreChild(attributes, Head(children), features),
                       Tail(children), features)

\* the dict returned when no KeyError is raised
extract_features(elements, features, include_key_and_mdate) ==
    LET attributes ==
            IF include_key_and_mdate
            THEN << StrEntry("type", <<elements.tag>>),
                    StrEntry("key", elements.attrib.key),
                    StrEntry("mdate", elements.attrib.mdate) >>
            ELSE << StrEntry("type", <<elements.tag>>) >>
    IN  StoreChildren(init_features(features, attributes),
                      elements.children, features)

----------------------------------------------------------------------------
(* json.dumps(attrib_values) + '\n' *)

RECURSIVE JsonChars(_)
JsonChars(t) ==
    IF t = <<>> THEN <<>>
    ELSE (CASE Head(t) = "\"" -> <<"\\", "\"">>
            [] Head(t) = "\\" -> <<"\\", "\\">>
            [] OTHER -> <<Head(t)>>) \o JsonChars(Tail(t))

JsonStr(t) == <<"\"">> \o JsonChars(t) \o <<"\"">>

RECURSIVE JsonItems(_)
JsonItems(l) ==
    IF l = <<>> THEN <<>>
    ELSE JsonStr(Head(l))
            \o (IF Len(l) > 1 THEN <<",", " ">> ELSE <<>>) \o JsonItems(Tail(l))

JsonValue(entry) ==
    IF entry.kind = "str" THEN JsonStr(entry.s)
    ELSE <<"[">> \o JsonItems(entry.l) \o <<"]">>

RECURSIVE JsonEntries(_)
JsonEntries(d) ==
    IF d = <<>> THEN <<>>
    ELSE JsonStr(<<Head(d).key>>) \o <<":", " ">> \o JsonValue(Head(d))
            \o (IF Len(d) > 1 THEN <<",", " ">> ELSE <<>>) \o JsonEntries(Tail(d))

\* a key is one symbol of the line
dumps(d) == <<"{">> \o JsonEntries(d) \o <<"}">>

Line(d) == dumps(d) \o <<"\n">>

----------------------------------------------------------------------------
(* The element tree *)

Y2021 == <<"2", "0", "2", "1">>
Y2022 == <<"2", "0", "2", "2">>

Child(tag, text) == [tag |-> tag, text |-> text, sub |-> <<>>, tail |-> <<"\n">>]

Attrib(key, mdate) == [key |-> key, mdate |-> mdate]

Node(tag, attrib, children) ==
    [tag |-> tag, attrib |-> attrib, children |-> children]

\* element.clear(): no children, no attributes, no text
Cleared(node) == Node(node.tag, Attrib(None, None), <<>>)

\* the tree that etree.parse builds: the children of the root, each with the
\* index it has in the document
Tree(nodes) == [i \in DOMAIN nodes |-> [idx |-> i, node |-> nodes[i]]]

Resident(tree) == {tree[i].idx : i \in DOMAIN tree}

Position(tree, idx) == CHOOSE i \in DOMAIN tree : tree[i].idx = idx

\* (mutant) the next node by position, counted after a sibling is deleted
GetNextByPosition(tree, idx) ==
    IF Position(tree, idx) + 1 < Len(tree)
    THEN tree[Position(tree, idx) + 2].idx
    ELSE 0

\* element.getnext(), 0 for None
GetNext(tree, idx) ==
    IF Position(tree, idx) < Len(tree)
    THEN tree[Position(tree, idx) + 1].idx
    ELSE 0

\* __clear_element: clear the element, delete every sibling before it
clear_element(tree, idx) ==
    LET at == Position(tree, idx)
        cleared == [tree EXCEPT ![at].node = Cleared(tree[at].node)]
    IN  SubSeq(cleared, at, Len(cleared))

----------------------------------------------------------------------------
(* The files and the arguments of an entry point *)

NoPath == "None"
NoCall == [entry |-> "none", year |-> None, years |-> {},
           features |-> Unspecified, include_key_and_mdate |-> FALSE,
           output |-> "", save_path |-> NoPath]
NoRecord == << StrEntry("none", <<>>) >>
NoFrame == [columns |-> <<"none">>, rows |-> <<>>]

\* (mutant) parse_by_years compares with one of the years only
SelectedOneYear(c, record) ==
    CASE c.entry = "parse_all" -> TRUE
      [] c.entry = "parse_by_year" -> Get(record, "year").s = c.year
      [] c.entry = "parse_by_years" ->
            Get(record, "year").s = (CHOOSE y \in c.years : TRUE)

\* what the entry point is asked to keep of a record
Selected(c, record) ==
    CASE c.entry = "parse_all" -> TRUE
      [] c.entry = "parse_by_year" -> Get(record, "year").s = c.year
      [] c.entry = "parse_by_years" -> Get(record, "year").s \in c.years

\* attrib_values["year"] raises KeyError
SelectRaises(c, record) ==
    c.entry # "parse_all" /\ "year" \notin Keys(record)

\* DataFrame.append(row, ignore_index=True): the columns the row brings
\* are added after the present ones
RECURSIVE AddColumns(_, _)
AddColumns(columns, keys) ==
    IF keys = <<>> THEN columns
    ELSE AddColumns(IF Head(keys) \in Range(columns)
                    THEN columns ELSE Append(columns, Head(keys)),
                    Tail(keys))

FrameAppend(frame, record) ==
    [columns |-> AddColumns(frame.columns, KeyList(record)),
     rows |-> Append(frame.rows, record)]

----------------------------------------------------------------------------
(* The entry points parse_all, parse_by_year, parse_by_years, step by step *)

\* the check of `output` and the call of __check_features
Call(c) ==
    /\ pc = "idle"
    /\ call' = c
    /\ IF c.output \notin {"jsonl", "dataframe"}
       THEN /\ outcome' = "ValueError"
            /\ pc' = "done"
            /\ UNCHANGED features_to_extract
       ELSE /\ features_to_extract' \in check_features(c.features)
            /\ pc' = "open"
            /\ UNCHANGED outcome
    /\ UNCHANGED <<source, destination, root, element, iter_next, visited,
                   attrib_values, dataframe, emitted, log>>

\* __open_dblp_file
Open ==
    /\ pc = "open"
    /\ IF source.readable
       THEN /\ root' = Tree(source.nodes)
            /\ pc' = "begin"
            /\ UNCHANGED outcome
       ELSE /\ outcome' = "LoadFailure"      \* IOError: sys.exit()
            /\ pc' = "done"
            /\ UNCHANGED root
    /\ UNCHANGED <<source, destination, call, features_to_extract, element,
                   iter_next, visited, attrib_values, dataframe, emitted, log>>

FirstChild(tree) == IF tree = <<>> THEN 0 ELSE tree[1].idx

\* (mutant) without the test of save_path
BeginNoPathTest ==
    /\ pc = "begin"
    /\ IF call.output = "jsonl"
       THEN /\ destination' = [exists |-> TRUE, lines |-> <<>>]
            /\ iter_next' = FirstChild(root)
            /\ pc' = "loop"
            /\ UNCHANGED <<outcome, dataframe>>
       ELSE /\ dataframe' = [columns |-> features_to_extract, rows |-> <<>>]
            /\ iter_next' = FirstChild(root)
            /\ pc' = "loop"
            /\ UNCHANGED <<outcome, destination>>
    /\ UNCHANGED <<source, call, features_to_extract, root, element, visited,
                   attrib_values, emitted, log>>

\* the branch on `output`, the check of save_path, open(save_path, 'w') or
\* pd.DataFrame(columns=...), and iter(root)
Begin ==
    /\ pc = "begin"
    /\ IF call.output = "jsonl"
       THEN IF call.save_path = NoPath
            THEN /\ outcome' = "ValueError"
                 /\ pc' = "done"
                 /\ UNCHANGED <<destination, iter_next, dataframe>>
            ELSE /\ destination' = [exists |-> TRUE, lines |-> <<>>]
                 /\ iter_next' = FirstChild(root)
                 /\ pc' = "loop"
                 /\ UNCHANGED <<outcome, dataframe>>
       ELSE /\ dataframe' = [columns |-> features_to_extract, rows |-> <<>>]
            /\ iter_next' = FirstChild(root)
            /\ pc' = "loop"
            /\ UNCHANGED <<outcome, destination>>
    /\ UNCHANGED <<source, call, features_to_extract, root, element, visited,
                   attrib_values, emitted, log>>

\* where the loop goes after the body up to the write or the append
AfterBody == IF call.output = "jsonl" THEN "clear" ELSE "loop"

\* the iterator yields the next child and the loop body runs up to the
\* write to the file or the append to the DataFrame
Visit ==
    /\ pc = "loop"
    /\ iter_next # 0
    /\ element' = iter_next
    /\ iter_next' = GetNext(root, iter_next)
    /\ visited' = Append(visited, iter_next)
    /\ LET elements == root[Position(root, iter_next)].node
           record == extract_features(elements, features_to_extract,
                                      call.include_key_and_mdate)
       IN  IF elements.tag \notin all_elements
           THEN /\ pc' = AfterBody
                /\ UNCHANGED <<attrib_values, destination, dataframe, emitted,
                               outcome>>
           ELSE IF ExtractRaises(elements, call.include_key_and_mdate)
           THEN /\ outcome' = "KeyError"
                /\ pc' = "done"
                /\ UNCHANGED <<attrib_values, destination, dataframe, emitted>>
           ELSE IF SelectRaises(call, record)
           THEN /\ attrib_values' = record
                /\ outcome' = "KeyError"
                /\ pc' = "done"
                /\ UNCHANGED <<destination, dataframe, emitted>>
           ELSE /\ attrib_values' = record
                /\ pc' = AfterBody
                /\ UNCHANGED outcome
                /\ IF ~Selected(call, record)
                   THEN UNCHANGED <<destination, dataframe, emitted>>
                   ELSE /\ emitted' =
                            Append(emitted,
                                   [idx |-> iter_next, record |-> record])
                        /\ IF call.output = "jsonl"
                           THEN /\ destination' =
                                    [destination EXCEPT
                                        !.lines = Append(@, Line(record))]
                                /\ UNCHANGED dataframe
                           ELSE /\ dataframe' = FrameAppend(dataframe, record)
                                /\ UNCHANGED destination
    /\ UNCHANGED <<source, call, features_to_extract, root, log>>

\* self.__clear_element(element), in the jsonl branch only
Clear ==
    /\ pc = "clear"
    /\ root' = clear_element(root, element)
    /\ pc' = "loop"
    /\ UNCHANGED <<source, destination, call, features_to_extract, element,
                   iter_next, visited, attrib_values, dataframe, emitted,
                   outcome, log>>

\* the iterator is exhausted: file.close(), or return dataframe
Finish ==
    /\ pc = "loop"
    /\ iter_next = 0
    /\ outcome' = "returned"
    /\ pc' = "done"
    /\ UNCHANGED <<source, destination, call, features_to_extract, root,
                   element, iter_next, visited, attrib_values, dataframe,
                   emitted, log>>

\* the call has returned or raised: the caller keeps what it produced (the
\* lines of the file it asked for, the records) and may call again
Return ==
    /\ pc = "done"
    /\ log' = log \cup
           {[call |-> call,
             outcome |-> outcome,
             lines |-> IF call.output = "jsonl" /\ call.save_path # NoPath
                          /\ destination.exists
                       THEN destination.lines ELSE <<>>,
             emitted |-> emitted]}
    /\ pc' = "idle"
    /\ call' = NoCall
    /\ features_to_extract' = <<>>
    /\ root' = <<>>
    /\ element' = 0
    /\ iter_next' = 0
    /\ visited' = <<>>
    /\ attrib_values' = NoRecord
    /\ dataframe' = NoFrame
    /\ emitted' = <<>>
    /\ outcome' = ""
    /\ UNCHANGED <<source, destination>>

----------------------------------------------------------------------------
(* The documents and the arguments the entry points are checked on *)

MaxNodes == 3
MaxSessionNodes == 2

Paper ==
    Node("article", Attrib(<<"a", "1">>, <<"d", "1">>),
         << [tag |-> "title", text |-> <<"F">>,
             sub |-> << [tag |-> "i", text |-> <<"o">>, sub |-> <<>>,
                         tail |-> <<" ", "&">>] >>,
             tail |-> <<"\n">>],
            Child("author", <<"A">>),
            Child("author", <<"B">>),
            Child("year", Y2022),
            Child("pages", <<"1", "-", "3">>),
            Child("rating", <<"x">>) >>)

Older ==
    Node("book", Attrib(<<"b", "2">>, <<"d", "2">>),
         << Child("year", <<"1", "9", "9", "9">>),
            Child("year", Y2021),
            Child("year", None),
            Child("author", <<>>),
            Child("ee", <<"u">>) >>)

Bare ==
    Node("www", Attrib(None, None), << Child("author", <<"C">>) >>)

Stray ==
    Node("comment", Attrib(<<"c", "3">>, <<"d", "3">>),
         << Child("year", Y2022) >>)

NodePool == {Paper, Older, Bare, Stray}

Documents(n) == UNION {[1..k -> NodePool] : k \in 0..n}

Sources(n) ==
    {[readable |-> FALSE, nodes |-> <<>>]}
        \cup {[readable |-> TRUE, nodes |-> d] : d \in Documents(n)}

OldLine == <<"o", "l", "d", "\n">>

Destinations ==
    {[exists |-> FALSE, lines |-> <<>>], [exists |-> TRUE, lines |-> <<OldLine>>]}

Requests ==
    {Unspecified, Requested({}), Requested({"year"}),
     Requested({"title", "author"}), Requested({"year", "pages", "rating"}),
     Requested({"rating"})}

Predicates ==
    {[entry |-> "parse_all", year |-> None, years |-> {}],
     [entry |-> "parse_by_year", year |-> Y2022, years |-> {}],
     [entry |-> "parse_by_years", year |-> None, years |-> {Y2021, Y2022}]}

MakeCall(p, f, k, o, d) ==
    [entry |-> p.entry, year |-> p.year, years |-> p.years, features |-> f,
     include_key_and_mdate |-> k, output |-> o, save_path |-> d]

Calls ==
    {MakeCall(p, f, k, o, d) :
        p \in Predicates, f \in Requests, k \in BOOLEAN,
        o \in {"jsonl", "dataframe", "csv"}, d \in {NoPath, "out.jsonl"}}

SessionPredicates ==
    {[entry |-> "parse_by_year", year |-> Y2021, years |-> {}],
     [entry |-> "parse_by_year", year |-> Y2022, years |-> {}],
     [entry |-> "parse_by_years", year |-> None, years |-> {Y2021, Y2022}]}

SessionCalls ==
    {MakeCall(p, f, k, o, "out.jsonl") :
        p \in SessionPredicates,
        f \in {Requested({"year", "author"}), Requested({"author"})},
        k \in BOOLEAN, o \in {"jsonl", "dataframe"}}

\* the same configuration: everything but the year predicate
SameConfiguration(c, d) ==
    /\ c.features = d.features
    /\ c.include_key_and_mdate = d.include_key_and_mdate
    /\ c.output = d.output
    /\ c.save_path = d.save_path

----------------------------------------------------------------------------
(* The specifications *)

RunInit(sources) ==
    /\ source \in sources
    /\ destination \in Destinations
    /\ call = NoCall
    /\ pc = "idle"
    /\ features_to_extract = <<>>
    /\ root = <<>>
    /\ element = 0
    /\ iter_next = 0
    /\ visited = <<>>
    /\ attrib_values = NoRecord
    /\ dataframe = NoFrame
    /\ emitted = <<>>
    /\ outcome = ""
    /\ log = {}

\* one call of an entry point, with any arguments
Init == pages = None /\ pagecount = NotYet /\ RunInit(Sources(MaxNodes))

Next ==
    \/ (\E c \in Calls : Call(c)) /\ UNCHANGED pagevars
    \/ Open /\ UNCHANGED pagevars
    \/ Begin /\ UNCHANGED pagevars
    \/ Visit /\ UNCHANGED pagevars
    \/ Clear /\ UNCHANGED pagevars
    \/ Finish /\ UNCHANGED pagevars

Spec == Init /\ [][Next]_vars

\* calls of the by-year entry points over one source, one after the other,
\* with one configuration
SessionInit ==
    pages = None /\ pagecount = NotYet /\ RunInit(Sources(MaxSessionNodes))

SessionCall ==
    \E c \in SessionCalls :
        /\ \A r \in log : SameConfiguration(r.call, c)
        /\ Call(c)

SessionNext ==
    \/ SessionCall /\ UNCHANGED pagevars
    \/ Open /\ UNCHANGED pagevars
    \/ Begin /\ UNCHANGED pagevars
    \/ Visit /\ UNCHANGED pagevars
    \/ Clear /\ UNCHANGED pagevars
    \/ Finish /\ UNCHANGED pagevars
    \/ Return /\ UNCHANGED pagevars

SpecSession == SessionInit /\ [][SessionNext]_vars

----------------------------------------------------------------------------
(* The inputs of the page-count specification *)

MaxPagesLen == 4

PageAlphabet == {"1", "2", "-", ",", "A"}

\* the formats the docstring of __count_pages lists, and an absent text
PageExamples ==
    { <<"5", "1">>,
      <<"2", "3", "-", "4", "3">>,
      <<"I", "-", "X", "X", "I">>,
      <<"0", "-">>,
      <<"f">>,
      <<"9", "1", "A", "-", "9", "1", "A", "-", "3">>,
      <<"2", "-", "3", "&", "4", ",", "8">>,
      <<"P", "1", "7", ".", "2", "3">>,
      <<"A", "G", "8", "3", "-", "A", "G", "1", "2", "0">>,
      <<"4", "3", "-", "2", "3">>,
      None }

PageInputs ==
    UNION {[1..n -> PageAlphabet] : n \in 0..MaxPagesLen} \cup PageExamples

PagesInit ==
    /\ pages \in PageInputs
    /\ pagecount = NotYet
    /\ RunInit({[readable |-> FALSE, nodes |-> <<>>]})

\* text = self.__count_pages(sub_element.text)
CountPages ==
    /\ pagecount = NotYet
    /\ pagecount' = count_pages(pages)
    /\ UNCHANGED pages

PagesNext == CountPages /\ UNCHANGED runvars

SpecPages == PagesInit /\ [][PagesNext]_vars

----------------------------------------------------------------------------
(* The page-count rules as the specification words them, stated on the     *)
(* characters of the input and not through Split and FindAllDigits         *)

Commas(p) == {i \in 1..Len(p) : p[i] = ","}

SegmentCount(p) == Cardinality(Commas(p)) + 1

\* the positions of the k-th comma-separated segment
SegmentAt(p, k) ==
    {i \in 1..Len(p) :
        p[i] # "," /\ Cardinality({j \in Commas(p) : j < i}) = k - 1}

Least(S) == CHOOSE x \in S : \A y \in S : x <= y
Greatest(S) == CHOOSE x \in S : \A y \in S : x >= y

Segment(p, k) ==
    IF SegmentAt(p, k) = {} THEN <<>>
    ELSE SubSeq(p, Least(SegmentAt(p, k)), Greatest(SegmentAt(p, k)))

Dashes(seg) == {i \in 1..Len(seg) : seg[i] = "-"}

HasDigit(t) == \E i \in 1..Len(t) : t[i] \in Digits

RECURSIVE Pow10(_)
Pow10(n) == IF n = 0 THEN 1 ELSE 10 * Pow10(n - 1)

RECURSIVE SumOver(_, _)
\* the sum of f over the finite set S of its domain
SumOver(f, S) ==
    IF S = {} THEN 0
    ELSE LET x == CHOOSE y \in S : TRUE IN f[x] + SumOver(f, S \ {x})

\* the number written by the last maximal run of digits of t
LastNumber(t) ==
    LET e == Greatest({i \in 1..Len(t) : t[i] \in Digits})
        b == Least({j \in 1..e : \A m \in j..e : t[m] \in Digits})
    IN  SumOver([m \in b..e |-> DigitValue(t[m]) * Pow10(e - m)], b..e)

LeftPart(seg) == SubSeq(seg, 1, Least(Dashes(seg)) - 1)
RightPart(seg) == SubSeq(seg, Least(Dashes(seg)) + 1, Len(seg))

\* a segment the rules discard
Discarded(seg) ==
    \/ Cardinality(Dashes(seg)) >= 2
    \/ Cardinality(Dashes(seg)) = 0 /\ ~HasDigit(seg)
    \/ Cardinality(Dashes(seg)) = 1
          /\ (~HasDigit(LeftPart(seg)) \/ ~HasDigit(RightPart(seg)))

\* a range whose second number is below its first
Descending(seg) ==
    /\ ~Discarded(seg)
    /\ Cardinality(Dashes(seg)) = 1
    /\ LastNumber(RightPart(seg)) < LastNumber(LeftPart(seg))

\* what a segment contributes: descending tells what a descending range does
Contribution(seg, descending) ==
    IF Discarded(seg) THEN 0
    ELSE IF Cardinality(Dashes(seg)) = 0 THEN 1
    ELSE IF Descending(seg) THEN descending
    ELSE LastNumber(RightPart(seg)) - LastNumber(LeftPart(seg)) + 1

Total(p, descending) ==
    SumOver([k \in 1..SegmentCount(p) |->
                Contribution(Segment(p, k), descending)],
            1..SegmentCount(p))

\* t is "" for 0 and the decimal string of n for a positive n
Renders(t, n) ==
    IF n = 0 THEN t = <<>>
    ELSE /\ n > 0
         /\ t # <<>>
         /\ \A i \in 1..Len(t) : t[i] \in Digits
         /\ t[1] # "0"
         /\ LastNumber(t) = n

\* p without its k-th segment and the comma that goes with it
Without(p, k) ==
    LET gone == SegmentAt(p, k)
                  \cup {j \in Commas(p) :
                          Cardinality({c \in Commas(p) : c < j}) =
                              (IF k < SegmentCount(p) THEN k - 1 ELSE k - 2)}
        kept == (1..Len(p)) \ gone
    IN  [m \in 1..Cardinality(kept) |->
            p[CHOOSE i \in kept : Cardinality({j \in kept : j < i}) = m - 1]]

PagesDone == pagecount # NotYet

\* C4: a range (a, b) with b < a contributes 0, so that the count is never
\* negative and the output is "" or the decimal string of a positive integer.
C4_NeverNegative ==
    PagesDone /\ pages # None => Renders(pagecount, Total(pages, 0))

\* C5: every comma-separated segment counts on its own: a segment with more
\* than two dash-parts or with a dash-part without digits counts 0, a single
\* part with digits counts 1, the number of a part is its last run of digits,
\* and a discarded segment leaves the count of the others as it is; the
\* documented examples give the documented counts.
C5_SegmentsIndependent ==
    PagesDone =>
        /\ pages = None => pagecount = <<>>
        /\ pages # None
              /\ (\A k \in 1..SegmentCount(pages) : ~Descending(Segment(pages, k)))
              => Renders(pagecount, Total(pages, 0))
        /\ pages # None =>
              \A k \in 1..SegmentCount(pages) :
                  SegmentCount(pages) > 1 /\ Discarded(Segment(pages, k))
                      => pagecount = count_pages(Without(pages, k))
        /\ pages = <<"2", "3", "-", "4", "3">> => pagecount = <<"2", "1">>
        /\ pages = <<"5", "1">> => pagecount = <<"1">>
        /\ pages = <<"I", "-", "X", "X", "I">> => pagecount = <<>>
        /\ pages = <<"9", "1", "A", "-", "9", "1", "A", "-", "3">>
              => pagecount = <<>>
        /\ pages = <<"2", "-", "3", "&", "4", ",", "8">> => pagecount = <<"4">>

\* a counted input with a segment of three dash-parts, a part without digits
\* and a single part with digits
C5_Witness ==
    /\ PagesDone
    /\ pages # None
    /\ pagecount # <<>>
    /\ \E k \in 1..SegmentCount(pages) :
           Cardinality(Dashes(Segment(pages, k))) >= 2
    /\ \E k \in 1..SegmentCount(pages) :
           Cardinality(Dashes(Segment(pages, k))) = 0
              /\ HasDigit(Segment(pages, k))

----------------------------------------------------------------------------
(* The claims about the entry points *)

SchemaNames ==
    {"address", "author", "booktitle", "cdrom", "chapter", "cite", "crossref",
     "editor", "ee", "isbn", "journal", "month", "note", "number", "pages",
     "publisher", "publnr", "school", "series", "title", "url", "volume",
     "year"}

Running == call # NoCall

ValidOutput == call.output \in {"jsonl", "dataframe"}

\* the node the loop variable names, as the document has it
CurrentNode == source.nodes[element]

MetadataKeys ==
    IF call.include_key_and_mdate THEN {"type", "key", "mdate"} ELSE {"type"}

\* C1: the keys of an extracted record are exactly the requested fields and
\* type (and key and mdate when the metadata is asked for), each once.
C1_ExactKeys ==
    attrib_values # NoRecord =>
        /\ Keys(attrib_values) = Range(features_to_extract) \cup MetadataKeys
        /\ Len(attrib_values) = Cardinality(Keys(attrib_values))

\* a record extracted with metadata from a node that has a child of a schema
\* field that is not requested and a child that is no schema field
C1_Witness ==
    /\ attrib_values # NoRecord
    /\ element # 0
    /\ call.include_key_and_mdate
    /\ Range(features_to_extract) # {}
    /\ \E i \in DOMAIN CurrentNode.children :
           /\ CurrentNode.children[i].tag \in SchemaNames
           /\ CurrentNode.children[i].tag \notin Range(features_to_extract)
    /\ \E i \in DOMAIN CurrentNode.children :
           CurrentNode.children[i].tag \notin SchemaNames
    /\ \E i \in DOMAIN CurrentNode.children :
           CurrentNode.children[i].tag \in Range(features_to_extract)

\* the year of a node as the document gives it: the text of its last year
\* child with a text, "" without one
RECURSIVE YearOf(_)
YearOf(children) ==
    IF children = <<>> THEN <<>>
    ELSE LET c == Last(children)
         IN  IF c.tag = "year" /\ c.text # None /\ c.text # <<>>
             THEN c.text ELSE YearOf(Front(children))

Recognized(nodes) == {i \in DOMAIN nodes : nodes[i].tag \in all_elements}

EmittedNodes == {emitted[i].idx : i \in DOMAIN emitted}

\* every recognized node carries the attributes the call asks for
MetadataAvailable ==
    call.include_key_and_mdate =>
        \A i \in Recognized(source.nodes) :
            ~ExtractRaises(source.nodes[i], TRUE)

\* the call is one the entry point accepts and the source loads
ValidRun ==
    /\ ValidOutput
    /\ call.features.given =>
          call.features.names # {} /\ call.features.names \subseteq SchemaNames
    /\ call.output = "jsonl" => call.save_path # NoPath
    /\ source.readable
    /\ MetadataAvailable

\* C2: with any requested fields, parse_by_year(y) completes and emits the
\* recognized records whose year is y, and no other.
C2_YearFilter ==
    pc = "done" /\ call.entry = "parse_by_year" /\ ValidRun =>
        /\ outcome = "returned"
        /\ EmittedNodes =
              {i \in Recognized(source.nodes) :
                  YearOf(source.nodes[i].children) = call.year}

AsMapping(record) == Range(record)

Results(entry, yrs) ==
    {r \in log : r.call.entry = entry
                    /\ (IF entry = "parse_by_year"
                        THEN {r.call.year} ELSE r.call.years) = yrs}

RecordsOf(r) ==
    {<<r.emitted[i].idx, AsMapping(r.emitted[i].record)>> : i \in DOMAIN r.emitted}

InDocumentOrder(r) ==
    \A i, j \in DOMAIN r.emitted : i < j => r.emitted[i].idx < r.emitted[j].idx

\* C3: over one source and one configuration, the records parse_by_years
\* gives for {y1, y2} are those parse_by_year gives for y1 together with those
\* it gives for y2, and they are written in document order.
C3_YearsIsUnion ==
    \A r1 \in Results("parse_by_year", {Y2021}) :
    \A r2 \in Results("parse_by_year", {Y2022}) :
    \A r12 \in Results("parse_by_years", {Y2021, Y2022}) :
        /\ RecordsOf(r12) = RecordsOf(r1) \cup RecordsOf(r2)
        /\ InDocumentOrder(r12)
        /\ r12.call.output = "jsonl" /\ r12.outcome = "returned" =>
              r12.lines = [i \in DOMAIN r12.emitted |->
                              Line(r12.emitted[i].record)]

\* the three calls have returned, and each single year gave a record
C3_Witness ==
    \E r1 \in Results("parse_by_year", {Y2021}) :
    \E r2 \in Results("parse_by_year", {Y2022}) :
    \E r12 \in Results("parse_by_years", {Y2021, Y2022}) :
        /\ r12.outcome = "returned"
        /\ r12.call.output = "jsonl"
        /\ r1.emitted # <<>>
        /\ r2.emitted # <<>>
        /\ Len(r12.lines) = 2

RequestedValid == {f \in call.features.names : f \in SchemaNames}

\* C6: a request with valid and invalid names resolves to its valid names,
\* and the call goes on.
C6_PartlyValid ==
    Running /\ ValidOutput /\ call.features.given
            /\ RequestedValid # {} /\ RequestedValid # call.features.names
    => /\ Range(features_to_extract) = RequestedValid
       /\ Len(features_to_extract) = Cardinality(RequestedValid)
       /\ pc = "open" => outcome = ""

\* a call that requests year, pages and the unknown rating has been checked
C6_Witness ==
    /\ pc = "open"
    /\ call.features = Requested({"year", "pages", "rating"})
    /\ Range(features_to_extract) = {"year", "pages"}

EmittedCarry(names) ==
    \A i \in DOMAIN emitted : Keys(emitted[i].record) \cap SchemaNames = names

\* C7 as claimed: an unspecified, an empty and an entirely invalid request
\* resolve to the full schema, and every record carries every schema field.
C7_FullSchemaFallback ==
    Running /\ ValidOutput
            /\ (~call.features.given \/ RequestedValid = {})
    => /\ Range(features_to_extract) = SchemaNames
       /\ EmittedCarry(SchemaNames)

\* C7 as amended: an unspecified and an empty request resolve to the full
\* schema of 23 fields, and every record carries every schema field; a
\* non-empty request of invalid names only resolves to no field at all, and
\* every record carries no schema field.
C7_Amended ==
    Running /\ ValidOutput =>
        /\ (~call.features.given \/ call.features.names = {})
           => /\ features_to_extract = AllFeatureNames
              /\ Range(features_to_extract) = SchemaNames
              /\ Cardinality(Range(features_to_extract)) = 23
              /\ EmittedCarry(SchemaNames)
        /\ (call.features.given /\ call.features.names # {}
               /\ RequestedValid = {})
           => /\ features_to_extract = <<>>
              /\ EmittedCarry({})

\* a record has been written by a call with an empty request
C7_Witness ==
    /\ call.features = Requested({})
    /\ emitted # <<>>
    /\ destination.lines # <<>>
    /\ Cardinality(Keys(emitted[1].record) \cap SchemaNames) = 23

BadConfiguration ==
    \/ ~ValidOutput
    \/ call.output = "jsonl" /\ call.save_path = NoPath

Untouched ==
    /\ visited = <<>>
    /\ element = 0
    /\ attrib_values = NoRecord
    /\ emitted = <<>>
    /\ destination \in Destinations

\* C8 as claimed: whatever the source, a call with an unknown output, or with
\* jsonl and no save_path, ends in the ValueError with nothing traversed,
\* extracted or written.
C8_ConfigurationError ==
    Running /\ BadConfiguration =>
        /\ Untouched
        /\ pc \in {"open", "begin", "done"}
        /\ pc = "done" => outcome = "ValueError"

\* C8 as amended: such a call traverses, extracts and writes nothing; it
\* ends in the ValueError when the output is unknown, or when the source
\* loads, and in the load failure when jsonl is asked for with no save_path
\* and the source does not load.
C8_Amended ==
    Running /\ BadConfiguration =>
        /\ Untouched
        /\ pc \in {"open", "begin", "done"}
        /\ pc = "done" =>
              outcome = (IF ~ValidOutput \/ source.readable
                         THEN "ValueError" ELSE "LoadFailure")

\* jsonl with no save_path over a loaded document, with a file already there
C8_Witness ==
    /\ pc = "done"
    /\ outcome = "ValueError"
    /\ call.output = "jsonl"
    /\ call.save_path = NoPath
    /\ Len(source.nodes) >= 2
    /\ destination.lines = <<OldLine>>

\* the nodes the loop body has run for that are still in the tree
ResidentProcessed == Resident(root) \cap Range(visited)

\* C9: in both output modes each node is released, with the siblings before
\* it, before the loop goes on: never more than the node of the loop and the
\* one before it are resident among the processed ones.
C9_BoundedResidency ==
    Running /\ pc \in {"loop", "clear", "done"} =>
        Cardinality(ResidentProcessed) <= 2

\* C10: two calls with the same arguments over the same source write the
\* same lines, in the same order, with the keys in the same order.
C10_SameBytes ==
    \A r, q \in log : r.call = q.call => r.lines = q.lines

----------------------------------------------------------------------------
(* The claims about the table, the values, the traversal and the metadata *)

\* the year predicate of the call, on the year the document gives a node
Passes(node) ==
    CASE call.entry = "parse_all" -> TRUE
      [] call.entry = "parse_by_year" -> YearOf(node.children) = call.year
      [] call.entry = "parse_by_years" -> YearOf(node.children) \in call.years

\* the recognized nodes of the document that pass the year predicate
Survivors == {i \in Recognized(source.nodes) : Passes(source.nodes[i])}

\* the m-th smallest element of a finite set of numbers
Nth(S, m) == CHOOSE x \in S : Cardinality({y \in S : y < x}) = m - 1

Ascending(S) == [m \in 1..Cardinality(S) |-> Nth(S, m)]

\* C11: the table a tabular call returns has the requested fields and the
\* metadata keys as its columns, also when no record survives, and one row
\* per surviving recognized record, in document order.
C11_TableShape ==
    pc = "done" /\ outcome = "returned" /\ call.output = "dataframe" =>
        /\ Range(dataframe.columns) = Range(features_to_extract) \cup MetadataKeys
        /\ Len(dataframe.rows) = Cardinality(Survivors)
        /\ [i \in DOMAIN emitted |-> emitted[i].idx] = Ascending(Survivors)
        /\ dataframe.rows = [i \in DOMAIN emitted |-> emitted[i].record]

\* the children of a node with the tag f and a non-empty derived text
Filled(node, f) ==
    {i \in DOMAIN node.children :
        /\ node.children[i].tag = f
        /\ DerivedText(node.children[i]) # None
        /\ DerivedText(node.children[i]) # <<>>}

\* the value of the field f of a node as the rule of the claim gives it
ExpectedEntry(node, f) ==
    IF f \in {"author", "cite", "editor", "ee"}
    THEN [key |-> f, kind |-> "list", s |-> <<>>,
          l |-> [m \in 1..Cardinality(Filled(node, f)) |->
                    DerivedText(node.children[Nth(Filled(node, f), m)])]]
    ELSE [key |-> f, kind |-> "str", l |-> <<>>,
          s |-> IF Filled(node, f) = {} THEN <<>>
                ELSE DerivedText(node.children[Greatest(Filled(node, f))])]

FollowsRule(record, node) ==
    \A f \in Range(features_to_extract) :
        /\ f \in Keys(record)
        /\ Get(record, f) = ExpectedEntry(node, f)

\* the loop variable names a recognized node whose record is attrib_values
CurrentExtracted ==
    /\ element # 0
    /\ attrib_values # NoRecord
    /\ CurrentNode.tag \in all_elements
    /\ ~ExtractRaises(CurrentNode, call.include_key_and_mdate)

\* C12: a scalar field is the derived text of the last child of that tag
\* with a non-empty derived text ("" without one), a multi-valued field is
\* the sequence of the non-empty derived texts in document order, and a record
\* has nothing of another node.
C12_ValuesFollowRule ==
    /\ CurrentExtracted => FollowsRule(attrib_values, CurrentNode)
    /\ \A i \in DOMAIN emitted :
           FollowsRule(emitted[i].record, source.nodes[emitted[i].idx])

\* the second record of a document, of a node with a scalar given twice with
\* a text and then without, and a multi-valued field given with no text
C12_Witness ==
    /\ CurrentExtracted
    /\ element >= 2
    /\ source.nodes[1].tag \in all_elements
    /\ {"year", "author"} \subseteq Range(features_to_extract)
    /\ Cardinality(Filled(CurrentNode, "year")) >= 2
    /\ \E i \in DOMAIN CurrentNode.children :
           /\ CurrentNode.children[i].tag = "year"
           /\ i > Greatest(Filled(CurrentNode, "year"))
    /\ \E i \in DOMAIN CurrentNode.children :
           CurrentNode.children[i].tag = "author" /\ i \notin Filled(CurrentNode, "author")
    /\ Get(attrib_values, "year").s = Y2021

\* the file at save_path has been opened by the running call
FileOpened ==
    /\ call.output = "jsonl"
    /\ \/ pc \in {"loop", "clear"}
       \/ pc = "done" /\ outcome \in {"returned", "KeyError"}

\* C13: a jsonl call visits the children of the root once each, in document
\* order, with the clearing and the deletions going on; the file gets one line
\* per recognized node that passes the year predicate, in document order, and
\* no line for another node.
C13_EveryNodeOnce ==
    Running /\ call.output = "jsonl" =>
        /\ visited = [i \in 1..Len(visited) |-> i]
        /\ Len(visited) <= Len(source.nodes)
        /\ pc = "done" /\ outcome = "returned" =>
              /\ Len(visited) = Len(source.nodes)
              /\ destination.lines =
                    [m \in 1..Cardinality(Survivors) |->
                        Line(extract_features(source.nodes[Nth(Survivors, m)],
                                              features_to_extract,
                                              call.include_key_and_mdate))]
        /\ FileOpened =>
              /\ destination.lines = [i \in DOMAIN emitted |-> Line(emitted[i].record)]
              /\ InDocumentOrder([emitted |-> emitted])
              /\ EmittedNodes \subseteq Range(visited) \cap Recognized(source.nodes)

\* a returned jsonl call over three nodes: one written, one of another tag,
\* one that does not pass the year predicate
C13_Witness ==
    /\ pc = "done"
    /\ outcome = "returned"
    /\ call.output = "jsonl"
    /\ Len(visited) = 3
    /\ Len(destination.lines) = 1
    /\ \E i \in DOMAIN source.nodes : source.nodes[i].tag \notin all_elements
    /\ \E i \in Recognized(source.nodes) : i \notin Survivors
    /\ root = <<[idx |-> 3, node |-> Cleared(source.nodes[3])]>>

\* a visited recognized node without its key or its mdate
Lacking(i) ==
    /\ source.nodes[i].tag \in all_elements
    /\ ExtractRaises(source.nodes[i], TRUE)

\* C14: with the metadata asked for, the extraction of a recognized node
\* without key or mdate fails: the call ends in the KeyError at that node, no
\* record is emitted for it, no emitted record lacks key or mdate, and the
\* lines written before stay in the file in document order; without the
\* metadata asked for such a node is extracted as any other.
C14_MissingAttribute ==
    Running /\ ValidOutput =>
        /\ call.include_key_and_mdate =>
              /\ \A k \in DOMAIN visited :
                    Lacking(visited[k]) =>
                        /\ pc = "done"
                        /\ outcome = "KeyError"
                        /\ k = Len(visited)
                        /\ visited[k] \notin EmittedNodes
                        /\ call.output = "jsonl" =>
                              destination.lines =
                                  [i \in DOMAIN emitted |-> Line(emitted[i].record)]
              /\ \A i \in DOMAIN emitted :
                    /\ {"key", "mdate"} \subseteq Keys(emitted[i].record)
                    /\ Get(emitted[i].record, "key").s # None
                    /\ Get(emitted[i].record, "mdate").s # None
                    /\ ~Lacking(emitted[i].idx)
        /\ ~call.include_key_and_mdate /\ call.entry = "parse_all" =>
              /\ outcome # "KeyError"
              /\ \A k \in DOMAIN visited :
                    Lacking(visited[k]) => visited[k] \in EmittedNodes
              /\ CurrentExtracted /\ Lacking(element)
                    => attrib_values =
                          extract_features(CurrentNode, features_to_extract, FALSE)

\* a jsonl call with the metadata asked for has written a line and then met
\* a node without key and mdate
C14_Witness ==
    /\ pc = "done"
    /\ outcome = "KeyError"
    /\ call.include_key_and_mdate
    /\ call.output = "jsonl"
    /\ Len(visited) >= 2
    /\ Lacking(Last(visited))
    /\ Len(destination.lines) >= 1

====
